---- MODULE Spec2Model ----
(***************************************************************************)
(* Model of the route simulator page, client/src/pages/LocationTrack.tsx,  *)
(* and of the tracker/display page, client/src/pages/Dashboard.tsx.        *)
(*                                                                         *)
(* The simulator.                                                          *)
(*                                                                         *)
(* The component is a React function component.  Its state is the set of   *)
(* useState cells and the animationRef ref; its operations are the click   *)
(* handlers, the browser callbacks (script load, geolocation, animation    *)
(* frame), the effects and unmount.  A handler or callback is one action:  *)
(* it commits the state it sets.  The effects whose dependencies changed   *)
(* in a commit run next, as one action (RunEffects), with the values of    *)
(* that render, as closures do; the updates they queue are applied in the  *)
(* order they were queued and make the next commit.  No handler or browser *)
(* callback runs while effects are due: React flushes the render and the   *)
(* effects of a click before it returns to the browser, and the render of  *)
(* an animation frame before the next frame or event.                      *)
(*                                                                         *)
(* The tracker/display page.  Its handlers are single actions that include *)
(* the render and the effects that follow: the only closures that outlive  *)
(* a render are those of the socket, which the socket effect replaces      *)
(* whenever deviceMode or selectedDevice changes, and those of the         *)
(* positioning callbacks, which are kept with the request.  The events of  *)
(* the relay server and of the sensor are inputs.  A sample of the display *)
(* history is its device id and the number of its arrival.                 *)
(*                                                                         *)
(* Numbers.  Latitudes and longitudes are in units of 1/10000 degree.      *)
(* progress is counted in steps: the code adds 0.001 per frame, the model  *)
(* adds one step and a route is StepsToFull steps long, so progress p of   *)
(* the code is progress/StepsToFull here.  Arithmetic is exact (rational); *)
(* the rounding of IEEE doubles is not modelled.  Date.now() timestamps    *)
(* are left out of the samples.                                            *)
(***************************************************************************)
EXTENDS Integers, Sequences, FiniteSets, TLC

\* ------------------------------------------------------------------ bounds
StepsToFull == 8        \* animation frames from progress 0 to progress 1
ExtraTicks == 2         \* frames counted beyond the end of the route
MaxGeoPending == 1      \* outstanding getCurrentPosition requests
MaxWaypoints == 4       \* longest route given to the pure functions
MaxDen == 4             \* largest denominator of a progress given to them
MaxCoord == 1           \* coordinates of those routes are 0..MaxCoord

KeepLast == 3           \* samples kept by slice(-200): stands for 200
ExtraUpdates == 2       \* locationUpdate events beyond KeepLast
MaxWatchId == 1         \* watch ids are 0..MaxWatchId

MaxTicks == StepsToFull + ExtraTicks
MaxUpdates == KeepLast + ExtraUpdates

\* --------------------------------------------------------------- constants
KARIMNAGAR_LAT == 184386
KARIMNAGAR_LNG == 791288
HYDERABAD_LAT == 173850
HYDERABAD_LNG == 784867
NominalSpeed == 60

Null == 0               \* null of animationRef, a frame id is positive
NoLocation == [none |-> TRUE]
NoHeading == <<>>
NoSpeed == 0 - 1          \* speed is undefined
NoError == "none"
ErrUnsupported == "Geolocation is not supported by your browser"
ErrGeo == "Error getting location"
ErrMaps == "Failed to load Google Maps API"

routePoints ==
  << [lat |-> 184386, lng |-> 791288],
     [lat |-> 183500, lng |-> 790500],
     [lat |-> 181500, lng |-> 789500],
     [lat |-> 180000, lng |-> 788500],
     [lat |-> 177500, lng |-> 787000],
     [lat |-> 175500, lng |-> 786000],
     [lat |-> 174500, lng |-> 785500],
     [lat |-> 173850, lng |-> 784867] >>

VARIABLES
  mounted,          \* the component instance is mounted
  geoSupported,     \* navigator.geolocation exists (fixed by the browser)
  scriptState,      \* the Google Maps script element: "none", "found", "loading",
                    \* "loaded", "failed", "removed"
  isApiLoaded,
  map,              \* the map object has been created
  error,
  userLocation,     \* NoLocation or a fix
  geoPending,       \* getCurrentPosition requests not yet answered
  isConnected,
  progress,         \* in steps, 0..StepsToFull
  locationHistory,
  targetLocation,
  animationRef,     \* animationRef.current: Null or a frame id
  pendingFrames,    \* the browser's list of animation frame callbacks
  changed,          \* what changed in the last commit, effects not yet run
  ticks,            \* frames run since the last start (observer)
  everStopped,      \* a stop has been issued (observer)
  beforeTick,       \* history length and progress before the last frame (observer)
  argRoute, argPn, argPd, resSeg, resPos, fnPc   \* the pure functions on their own

simVars == << mounted, geoSupported, scriptState, isApiLoaded, map, error,
              userLocation, geoPending, isConnected, progress,
              locationHistory, targetLocation, animationRef, pendingFrames,
              changed, ticks, everStopped, beforeTick >>
fnVars == << argRoute, argPn, argPd, resSeg, resPos, fnPc >>

\* The tracker/display page, LocationTracker of client/src/pages/Dashboard.tsx.
VARIABLES
  dashMounted,      \* the component instance is mounted
  dashGeoSupported, \* "geolocation" in navigator
  dashScript,       \* the script element, as scriptState
  dashApiLoaded,    \* isApiLoaded
  dashError,        \* error
  deviceMode,       \* "tracker" or "display"
  isTracking,
  watchIdRef,       \* watchIdRef.current: NoWatch or a watch id
  watches,          \* the position watches active in the browser
  oneShots,         \* pending getCurrentPosition requests: the deviceMode
                    \* their callbacks closed over
  selectedDevice,   \* NoDevice or a device id
  connectedDevices, \* sequence of device ids
  dashHistory,      \* locationHistory
  currentLocation,
  socket,           \* the deviceMode and selectedDevice the handlers of the
                    \* live socket closed over
  arrivals,         \* locationUpdate events received (observer)
  accepted,         \* the samples accepted since the history was last
                    \* cleared (observer)
  sentModes         \* the deviceMode at each 'sendLocation' (observer)

dashVars == << dashMounted, dashGeoSupported, dashScript, dashApiLoaded,
               dashError, deviceMode, isTracking, watchIdRef, watches,
               oneShots, selectedDevice, connectedDevices, dashHistory,
               currentLocation, socket, arrivals, accepted, sentModes >>

vars == << simVars, fnVars, dashVars >>

\* ---------------------------------------------------------- pure functions
Min(a, b) == IF a < b THEN a ELSE b

\* window.google.maps.geometry.spherical.computeHeading: the bearing is a
\* function of the two end points; it is kept symbolic.
ComputeHeading(start, end) == << start.lat, start.lng, end.lat, end.lng >>

CalculateHeading(start, end, hasGoogle) ==
  IF ~hasGoogle THEN << 0, 0, 0, 0 >> ELSE ComputeHeading(start, end)

\* Variant: the longitude is interpolated with the latitude difference.
InterpolatePoints_LngFromLat(p1, p2, tn, td) ==
  [ lat |-> p1.lat * td + (p2.lat - p1.lat) * tn,
    lng |-> p1.lng * td + (p2.lat - p1.lat) * tn,
    den |-> td ]

\* t is tn/td; the result is in units of 1/den of the waypoints' unit.
InterpolatePoints(p1, p2, tn, td) ==
  [ lat |-> p1.lat * td + (p2.lat - p1.lat) * tn,
    lng |-> p1.lng * td + (p2.lng - p1.lng) * tn,
    den |-> td ]

\* Variant: the floor alone, without the guard for progress >= 1 and
\* without the Math.min.
FindCurrentSegment_Unclamped(pn, pd, route) ==
  (pn * (Len(route) - 1)) \div pd

\* progress is pn/pd, progressPerSegment is 1/totalSegments.
FindCurrentSegment(pn, pd, route) ==
  IF pn >= pd THEN Len(route) - 2
  ELSE LET totalSegments == Len(route) - 1
           currentSegment == (pn * totalSegments) \div pd
       IN Min(currentSegment, totalSegments - 1)

\* segmentProgress = (progress - currentSegment * progressPerSegment)
\*                   / progressPerSegment, as a numerator over pd.
SegmentProgress(pn, pd, route, currentSegment) ==
  pn * (Len(route) - 1) - currentSegment * pd

\* The position the sample effect computes from a progress.
PositionAt(pn, pd, route) ==
  LET currentSegment == FindCurrentSegment(pn, pd, route)
      p1 == route[currentSegment + 1]      \* routePoints[currentSegment]
      p2 == route[currentSegment + 2]      \* routePoints[currentSegment + 1]
  IN InterpolatePoints(p1, p2, SegmentProgress(pn, pd, route, currentSegment), pd)

\* Variant: the heading is taken from the interpolated position to the end
\* of the segment instead of from the start of the segment.
NewLocation_HeadingFromPosition(prog, hasGoogle) ==
  LET currentSegment == FindCurrentSegment(prog, StepsToFull, routePoints)
      p2 == routePoints[currentSegment + 2]
      newPos == PositionAt(prog, StepsToFull, routePoints)
  IN [ lat |-> newPos.lat, lng |-> newPos.lng, den |-> newPos.den,
       heading |-> CalculateHeading([lat |-> newPos.lat, lng |-> newPos.lng],
                                    p2, hasGoogle),
       speed |-> NominalSpeed ]

NewLocation(prog, hasGoogle) ==
  LET currentSegment == FindCurrentSegment(prog, StepsToFull, routePoints)
      p1 == routePoints[currentSegment + 1]
      p2 == routePoints[currentSegment + 2]
      newPos == PositionAt(prog, StepsToFull, routePoints)
  IN [ lat |-> newPos.lat, lng |-> newPos.lng, den |-> newPos.den,
       heading |-> CalculateHeading(p1, p2, hasGoogle),
       speed |-> NominalSpeed ]

\* ------------------------------------------------------ browser and effects
FrameIds(frames) == { f.id : f \in frames }

\* requestAnimationFrame returns an id no live callback or reference holds.
NextFrameId(ref, frames) ==
  CHOOSE i \in 1..(Cardinality(frames) + 2) :
    /\ i \notin FrameIds(frames) \cup {ref}
    /\ \A j \in 1..(i - 1) : j \in FrameIds(frames) \cup {ref}

CancelAnimationFrame(frames, id) == { f \in frames : f.id # id }

\* requestAnimationFrame(animateAlongRoute): the callback is the closure of
\* the render that scheduled it and carries that render's isConnected.
RequestAnimationFrame(frames, id, conn) ==
  frames \cup { [id |-> id, isConnected |-> conn] }

\* Variant: the cleanup does nothing.
StartStopCleanup_NoOp(ref, frames) ==
  [ref |-> ref, frames |-> frames]

\* Variant: the cleanup forgets the frame without cancelling it.
StartStopCleanup_NoCancel(ref, frames) ==
  [ref |-> Null, frames |-> frames]

\* The cleanup returned by the start/stop effect.
StartStopCleanup(ref, frames) ==
  IF ref # Null
  THEN [ref |-> Null, frames |-> CancelAnimationFrame(frames, ref)]
  ELSE [ref |-> ref, frames |-> frames]

\* Variant: the reset is done on stop as well.
StartStopEffect_ResetOnStop(conn, ref, frames) ==
  IF conn
  THEN LET id == NextFrameId(ref, frames)
       IN [ref |-> id, frames |-> RequestAnimationFrame(frames, id, conn),
           reset |-> TRUE]
  ELSE IF ref # Null
       THEN [ref |-> Null, frames |-> CancelAnimationFrame(frames, ref),
             reset |-> TRUE]
       ELSE [ref |-> ref, frames |-> frames, reset |-> TRUE]

\* The body of the start/stop effect, run with the render's isConnected.
\* reset says that setProgress(0) and setLocationHistory([]) were called.
StartStopEffect(conn, ref, frames) ==
  IF conn
  THEN LET id == NextFrameId(ref, frames)
       IN [ref |-> id, frames |-> RequestAnimationFrame(frames, id, conn),
           reset |-> TRUE]
  ELSE IF ref # Null
       THEN [ref |-> Null, frames |-> CancelAnimationFrame(frames, ref),
             reset |-> FALSE]
       ELSE [ref |-> ref, frames |-> frames, reset |-> FALSE]

\* Variant: no sample is emitted once the end of the route is reached.
SampleEffect_SkipAtEnd(conn, prog, hasGoogle) ==
  IF ~conn \/ prog >= StepsToFull THEN << >>
  ELSE << NewLocation(prog, hasGoogle) >>

\* The sample effect, run with the render's isConnected and progress: the
\* samples it appends (none or one).
SampleEffect(conn, prog, hasGoogle) ==
  IF ~conn THEN << >> ELSE << NewLocation(prog, hasGoogle) >>

\* Variant: two steps per frame.
AdvanceProgress_DoubleStep(prev) ==
  LET newProgress == prev + 2
  IN IF newProgress > StepsToFull THEN StepsToFull ELSE newProgress

\* Variant: no clamp.
AdvanceProgress_NoClamp(prev) == prev + 1

\* The updater given to setProgress by animateAlongRoute.
AdvanceProgress(prev) ==
  LET newProgress == prev + 1
  IN IF newProgress > StepsToFull THEN StepsToFull ELSE newProgress

\* getUserLocation: the error it sets and the request it issues.
GetUserLocation(err, pend) ==
  IF ~geoSupported
  THEN [error |-> ErrUnsupported, geoPending |-> pend]
  ELSE [error |-> err, geoPending |-> pend + 1]

\* -------------------------------------------------------------------- Init
FnIdle ==
  /\ argRoute = << >> /\ argPn = 0 /\ argPd = 1
  /\ resSeg = 0 /\ resPos = NoLocation /\ fnPc = "off"

\* The state of the first render; the mount effects have not run yet.
SimInit ==
  /\ mounted = TRUE
  /\ geoSupported \in BOOLEAN
  /\ scriptState = "none"
  /\ isApiLoaded = FALSE
  /\ map = FALSE
  /\ error = NoError
  /\ userLocation = NoLocation
  /\ geoPending = 0
  /\ isConnected = FALSE
  /\ progress = 0
  /\ locationHistory = << >>
  /\ targetLocation = [lat |-> KARIMNAGAR_LAT, lng |-> KARIMNAGAR_LNG,
                       den |-> 1, heading |-> NoHeading, speed |-> NoSpeed]
  /\ animationRef = Null
  /\ pendingFrames = {}
  /\ changed = {"mount"}
  /\ ticks = 0
  /\ everStopped = FALSE
  /\ beforeTick = [len |-> 0, progress |-> 0]

\* The simulator page is not on screen.
SimOff ==
  /\ mounted = FALSE
  /\ geoSupported = TRUE
  /\ scriptState = "none"
  /\ isApiLoaded = FALSE
  /\ map = FALSE
  /\ error = NoError
  /\ userLocation = NoLocation
  /\ geoPending = 0
  /\ isConnected = FALSE
  /\ progress = 0
  /\ locationHistory = << >>
  /\ targetLocation = [lat |-> KARIMNAGAR_LAT, lng |-> KARIMNAGAR_LNG,
                       den |-> 1, heading |-> NoHeading, speed |-> NoSpeed]
  /\ animationRef = Null
  /\ pendingFrames = {}
  /\ changed = {}
  /\ ticks = 0
  /\ everStopped = FALSE
  /\ beforeTick = [len |-> 0, progress |-> 0]

\* ------------------------------------------------- tracker / display page
NoWatch == 0 - 1                 \* null of watchIdRef
NoDevice == "none"               \* null of selectedDevice
Me == "me"                       \* sessionId of this device
OtherDevices == {"d1", "d2"}
AllDevices == OtherDevices \cup {Me}
WatchIds == 0..MaxWatchId
ErrSocket == "Socket error"

\* The handlers of a socket close over the deviceMode and selectedDevice of
\* the render whose effect created it.
SocketEffect(mode, sel) == [deviceMode |-> mode, selectedDevice |-> sel]

\* The mount effects have run: the session id is set, the socket is
\* created, the script element was found or is loading.
DashState(isMounted, script) ==
  /\ dashMounted = isMounted
  /\ dashGeoSupported \in (IF isMounted THEN BOOLEAN ELSE {TRUE})
  /\ dashScript = script
  /\ dashApiLoaded = (script = "found")
  /\ dashError = NoError
  /\ deviceMode = "display"
  /\ isTracking = FALSE
  /\ watchIdRef = NoWatch
  /\ watches = {}
  /\ oneShots = << >>
  /\ selectedDevice = NoDevice
  /\ connectedDevices = << >>
  /\ dashHistory = << >>
  /\ currentLocation = NoLocation
  /\ socket = SocketEffect("display", NoDevice)
  /\ arrivals = 0
  /\ accepted = << >>
  /\ sentModes = {}

\* The tracker/display page is not on screen.
DashOff == DashState(FALSE, "none")

DashStart == \E script \in {"found", "loading"} : DashState(TRUE, script)

\* The tracker/display page is on screen, the simulator is not.
DashInit == DashStart /\ SimOff /\ FnIdle

Init == SimInit /\ FnIdle /\ DashOff

\* ----------------------------------------------------------------- actions
Quiescent == changed = {}

\* The effects of the last commit, in the order the component declares them.
\*  - script effect (mount only): the script element or window.google is
\*    found (present) and isApiLoaded is set, or the script is created;
\*  - map effect [isApiLoaded]: creates the map and calls getUserLocation;
\*  - start/stop effect [isConnected]: cleanup of its last run, then body;
\*  - sample effect [progress, isConnected].
RunEffects(present) ==
  /\ mounted /\ changed # {}
  /\ LET onMount == "mount" \in changed
         runMap == "isApiLoaded" \in changed /\ isApiLoaded /\ ~map
         runStartStop == onMount \/ "isConnected" \in changed
         g == IF runMap THEN GetUserLocation(error, geoPending)
              ELSE [error |-> error, geoPending |-> geoPending]
         c == IF runStartStop /\ ~onMount
              THEN StartStopCleanup(animationRef, pendingFrames)
              ELSE [ref |-> animationRef, frames |-> pendingFrames]
         e == IF runStartStop
              THEN StartStopEffect(isConnected, c.ref, c.frames)
              ELSE [ref |-> c.ref, frames |-> c.frames, reset |-> FALSE]
         runSample == onMount \/ "isConnected" \in changed
                      \/ "progress" \in changed
         s == IF runSample THEN SampleEffect(isConnected, progress, isApiLoaded)
              ELSE << >>
         api1 == IF onMount /\ present THEN TRUE ELSE isApiLoaded
         progress1 == IF e.reset THEN 0 ELSE progress
     IN /\ scriptState' = IF onMount
                          THEN (IF present THEN "found" ELSE "loading")
                          ELSE scriptState
        /\ isApiLoaded' = api1
        /\ map' = (map \/ runMap)
        /\ error' = g.error
        /\ geoPending' = g.geoPending
        /\ animationRef' = e.ref
        /\ pendingFrames' = e.frames
        /\ progress' = progress1
        /\ locationHistory' = (IF e.reset THEN << >> ELSE locationHistory) \o s
        /\ targetLocation' = IF s = << >> THEN targetLocation ELSE s[1]
        /\ changed' = (IF api1 # isApiLoaded THEN {"isApiLoaded"} ELSE {})
                      \cup (IF progress1 # progress THEN {"progress"} ELSE {})
  /\ UNCHANGED << mounted, geoSupported, userLocation, isConnected, ticks,
                  everStopped, beforeTick >>
  /\ UNCHANGED << fnVars, dashVars >>

Effects ==
  \E present \in (IF "mount" \in changed THEN BOOLEAN ELSE {FALSE}) :
    RunEffects(present)

\* script.onload
ScriptOnLoad ==
  /\ mounted /\ Quiescent /\ scriptState = "loading"
  /\ scriptState' = "loaded"
  /\ isApiLoaded' = TRUE
  /\ changed' = {"isApiLoaded"}
  /\ UNCHANGED << mounted, geoSupported, map, error, userLocation, geoPending,
                  isConnected, progress, locationHistory, targetLocation,
                  animationRef, pendingFrames, ticks, everStopped, beforeTick >>
  /\ UNCHANGED << fnVars, dashVars >>

\* script.onerror
ScriptOnError ==
  /\ mounted /\ Quiescent /\ scriptState = "loading"
  /\ scriptState' = "failed"
  /\ error' = ErrMaps
  /\ UNCHANGED << mounted, geoSupported, isApiLoaded, map, userLocation,
                  geoPending, isConnected, progress, locationHistory,
                  targetLocation, animationRef, pendingFrames, changed, ticks,
                  everStopped, beforeTick >>
  /\ UNCHANGED << fnVars, dashVars >>

\* The "Update My Location" button; it is rendered once isApiLoaded.
UpdateMyLocation ==
  /\ mounted /\ Quiescent /\ isApiLoaded
  /\ geoSupported => geoPending < MaxGeoPending
  /\ LET g == GetUserLocation(error, geoPending)
     IN error' = g.error /\ geoPending' = g.geoPending
  /\ UNCHANGED << mounted, geoSupported, scriptState, isApiLoaded, map,
                  userLocation, isConnected, progress, locationHistory,
                  targetLocation, animationRef, pendingFrames, changed, ticks,
                  everStopped, beforeTick >>
  /\ UNCHANGED << fnVars, dashVars >>

\* The success callback of getCurrentPosition.  A state update of an
\* unmounted component is dropped.
GeoSuccess ==
  /\ Quiescent /\ geoPending > 0
  /\ geoPending' = geoPending - 1
  /\ userLocation' = IF mounted THEN [none |-> FALSE] ELSE userLocation
  /\ UNCHANGED << mounted, geoSupported, scriptState, isApiLoaded, map, error,
                  isConnected, progress, locationHistory, targetLocation,
                  animationRef, pendingFrames, changed, ticks, everStopped, beforeTick >>
  /\ UNCHANGED << fnVars, dashVars >>

\* Variant: a failed request ends the session.
GeoError_Disconnects ==
  /\ Quiescent /\ geoPending > 0
  /\ geoPending' = geoPending - 1
  /\ error' = IF mounted THEN ErrGeo ELSE error
  /\ isConnected' = FALSE
  /\ changed' = IF mounted /\ isConnected THEN {"isConnected"} ELSE changed
  /\ UNCHANGED << mounted, geoSupported, scriptState, isApiLoaded, map,
                  userLocation, progress, locationHistory, targetLocation,
                  animationRef, pendingFrames, ticks, everStopped, beforeTick >>
  /\ UNCHANGED << fnVars, dashVars >>

\* The error callback of getCurrentPosition (permission denied, position
\* unavailable, timeout).
GeoError ==
  /\ Quiescent /\ geoPending > 0
  /\ geoPending' = geoPending - 1
  /\ error' = IF mounted THEN ErrGeo ELSE error
  /\ UNCHANGED << mounted, geoSupported, scriptState, isApiLoaded, map,
                  userLocation, isConnected, progress, locationHistory,
                  targetLocation, animationRef, pendingFrames, changed, ticks,
                  everStopped, beforeTick >>
  /\ UNCHANGED << fnVars, dashVars >>

\* The start/stop button, rendered once isApiLoaded.  Stop is
\* setIsConnected(false); start calls getUserLocation if there is no fix and
\* then setIsConnected(true).  Everything else is left to the effects.
ConnectToTracker ==
  /\ mounted /\ Quiescent /\ isApiLoaded
  /\ IF isConnected
     THEN /\ isConnected' = FALSE
          /\ everStopped' = TRUE
          /\ UNCHANGED << error, geoPending, ticks >>
     ELSE LET g == IF userLocation = NoLocation
                   THEN GetUserLocation(error, geoPending)
                   ELSE [error |-> error, geoPending |-> geoPending]
          IN /\ g.geoPending <= MaxGeoPending
             /\ error' = g.error
             /\ geoPending' = g.geoPending
             /\ isConnected' = TRUE
             /\ ticks' = 0
             /\ UNCHANGED everStopped
  /\ changed' = {"isConnected"}
  /\ UNCHANGED << mounted, geoSupported, scriptState, isApiLoaded, map,
                  userLocation, progress, locationHistory, targetLocation,
                  animationRef, pendingFrames, beforeTick >>
  /\ UNCHANGED << fnVars, dashVars >>

\* The browser runs the animation frame callback f: animateAlongRoute of
\* the render that scheduled it, with that render's isConnected.  It returns
\* at its guard, or it calls setProgress and schedules itself again.
\* setProgress of an unmounted component is dropped.
AnimationFrame(f) ==
  /\ Quiescent /\ f \in pendingFrames
  /\ ticks < MaxTicks
  /\ ticks' = ticks + 1
  /\ beforeTick' = [len |-> Len(locationHistory), progress |-> progress]
  /\ IF ~f.isConnected
     THEN /\ pendingFrames' = pendingFrames \ {f}
          /\ UNCHANGED << animationRef, progress, changed >>
     ELSE LET rest == pendingFrames \ {f}
              id == NextFrameId(animationRef, rest)
              newProgress == IF mounted THEN AdvanceProgress(progress)
                             ELSE progress
          IN /\ progress' = newProgress
             /\ changed' = IF newProgress # progress THEN {"progress"} ELSE {}
             /\ animationRef' = id
             /\ pendingFrames' = RequestAnimationFrame(rest, id, f.isConnected)
  /\ UNCHANGED << mounted, geoSupported, scriptState, isApiLoaded, map, error,
                  userLocation, geoPending, isConnected, locationHistory,
                  targetLocation, everStopped >>
  /\ UNCHANGED << fnVars, dashVars >>

Tick == \E f \in pendingFrames : AnimationFrame(f)

\* The component is removed: the cleanup of the script effect (registered
\* only when this instance created the element) and the cleanup of the
\* start/stop effect run.
Unmount ==
  /\ mounted /\ Quiescent
  /\ mounted' = FALSE
  /\ scriptState' = IF scriptState \in {"loading", "loaded", "failed"}
                    THEN "removed" ELSE scriptState
  /\ LET c == StartStopCleanup(animationRef, pendingFrames)
     IN animationRef' = c.ref /\ pendingFrames' = c.frames
  /\ UNCHANGED << geoSupported, isApiLoaded, map, error, userLocation,
                  geoPending, isConnected, progress, locationHistory,
                  targetLocation, changed, ticks, everStopped, beforeTick >>
  /\ UNCHANGED << fnVars, dashVars >>

Next ==
  \/ Effects
  \/ ScriptOnLoad
  \/ ScriptOnError
  \/ UpdateMyLocation
  \/ GeoSuccess
  \/ GeoError
  \/ ConnectToTracker
  \/ Tick
  \/ Unmount

Spec == Init /\ [][Next]_vars

\* The animation frames and the effects are run by the browser and by React
\* whenever they are due.
LiveSpec == Spec /\ WF_vars(Tick) /\ WF_vars(Effects)

\* ------------------------------------------- the pure functions on their own
\* findCurrentSegment and the position computation applied to any route of
\* 2..MaxWaypoints waypoints and any progress pn/pd in [0, 1].
Waypoints == [lat : 0..MaxCoord, lng : 0..MaxCoord]
Routes == UNION { [1..n -> Waypoints] : n \in 2..MaxWaypoints }

FnInit ==
  /\ SimInit /\ geoSupported = TRUE /\ DashOff
  /\ argRoute \in Routes
  /\ argPd \in 1..MaxDen
  /\ argPn \in 0..argPd
  /\ resSeg = 0
  /\ resPos = NoLocation
  /\ fnPc = "segment"

ApplyFindCurrentSegment ==
  /\ fnPc = "segment"
  /\ resSeg' = FindCurrentSegment(argPn, argPd, argRoute)
  /\ fnPc' = "position"
  /\ UNCHANGED << argRoute, argPn, argPd, resPos >>
  /\ UNCHANGED << simVars, dashVars >>

ApplyPositionAt ==
  /\ fnPc = "position"
  /\ resPos' = PositionAt(argPn, argPd, argRoute)
  /\ fnPc' = "done"
  /\ UNCHANGED << argRoute, argPn, argPd, resSeg >>
  /\ UNCHANGED << simVars, dashVars >>

FnNext == ApplyFindCurrentSegment \/ ApplyPositionAt

FnSpec == FnInit /\ [][FnNext]_vars

\* ---------------------------------------- tracker / display page: actions
\* One action is a handler or callback with the render and the effects that
\* follow it: a change of deviceMode or selectedDevice makes the socket
\* effect disconnect the socket and create a new one.

\* prev.slice(-n)
Slice(prev, n) ==
  IF Len(prev) <= n THEN prev ELSE SubSeq(prev, Len(prev) - n + 1, Len(prev))

\* Variant: the slice leaves room for the new sample.
KeepHistory_Exact(prev, data) == Append(Slice(prev, KeepLast - 1), data)

\* The updater of setLocationHistory in the locationUpdate handler.
KeepHistory(prev, data) == Append(Slice(prev, KeepLast), data)

\* The guard of the locationUpdate handler.
AcceptsUpdate(sock, data) ==
  /\ sock.deviceMode = "display"
  /\ (sock.selectedDevice = NoDevice \/ data.deviceId = sock.selectedDevice)

\* devices.filter(d => d.id !== sessionId)
OthersOf(devices) == SelectSeq(devices, LAMBDA d : d # Me)

\* Lists of distinct devices the server may send.
DeviceLists ==
  { l \in UNION { [1..n -> AllDevices] : n \in 0..Cardinality(AllDevices) } :
      \A i, j \in DOMAIN l : i # j => l[i] # l[j] }

\* The views the component returns.
DashUiShown == deviceMode = "tracker" \/ dashApiLoaded

\* script.onload
DashScriptOnLoad ==
  /\ dashMounted /\ dashScript = "loading"
  /\ dashScript' = "loaded"
  /\ dashApiLoaded' = TRUE
  /\ UNCHANGED << dashMounted, dashGeoSupported, dashError, deviceMode,
                  isTracking, watchIdRef, watches, oneShots, selectedDevice,
                  connectedDevices, dashHistory, currentLocation, socket,
                  arrivals, accepted, sentModes >>
  /\ UNCHANGED << simVars, fnVars >>

\* script.onerror
DashScriptOnError ==
  /\ dashMounted /\ dashScript = "loading"
  /\ dashScript' = "failed"
  /\ dashError' = ErrMaps
  /\ UNCHANGED << dashMounted, dashGeoSupported, dashApiLoaded, deviceMode,
                  isTracking, watchIdRef, watches, oneShots, selectedDevice,
                  connectedDevices, dashHistory, currentLocation, socket,
                  arrivals, accepted, sentModes >>
  /\ UNCHANGED << simVars, fnVars >>

\* socket.on('locationUpdate')
LocationUpdate(device) ==
  /\ dashMounted /\ arrivals < MaxUpdates
  /\ arrivals' = arrivals + 1
  /\ LET data == [deviceId |-> device, timestamp |-> arrivals + 1]
     IN IF AcceptsUpdate(socket, data)
        THEN /\ currentLocation' = data
             /\ dashHistory' = KeepHistory(dashHistory, data)
             /\ accepted' = Append(accepted, data)
        ELSE UNCHANGED << currentLocation, dashHistory, accepted >>
  /\ UNCHANGED << dashMounted, dashGeoSupported, dashScript, dashApiLoaded,
                  dashError, deviceMode, isTracking, watchIdRef, watches,
                  oneShots, selectedDevice, connectedDevices, socket,
                  sentModes >>
  /\ UNCHANGED << simVars, fnVars >>

OnLocationUpdate == \E device \in OtherDevices : LocationUpdate(device)

\* socket.on('devicesList')
DevicesList(devices) ==
  /\ dashMounted
  /\ connectedDevices' = OthersOf(devices)
  /\ selectedDevice' =
       IF /\ socket.deviceMode = "display"
          /\ socket.selectedDevice = NoDevice
          /\ OthersOf(devices) # << >>
       THEN OthersOf(devices)[1]
       ELSE selectedDevice
  /\ socket' = SocketEffect(deviceMode, selectedDevice')
  /\ UNCHANGED << dashMounted, dashGeoSupported, dashScript, dashApiLoaded,
                  dashError, deviceMode, isTracking, watchIdRef, watches,
                  oneShots, dashHistory, currentLocation, arrivals, accepted,
                  sentModes >>
  /\ UNCHANGED << simVars, fnVars >>

OnDevicesList == \E devices \in DeviceLists : DevicesList(devices)

\* socket.on('error')
OnSocketError ==
  /\ dashMounted
  /\ dashError' = ErrSocket
  /\ UNCHANGED << dashMounted, dashGeoSupported, dashScript, dashApiLoaded,
                  deviceMode, isTracking, watchIdRef, watches, oneShots,
                  selectedDevice, connectedDevices, dashHistory,
                  currentLocation, socket, arrivals, accepted, sentModes >>
  /\ UNCHANGED << simVars, fnVars >>

\* The "Start/Stop Sharing Location" button of the tracker view.
ToggleTracking ==
  /\ dashMounted /\ deviceMode = "tracker"
  /\ IF isTracking
     THEN /\ IF watchIdRef # NoWatch
             THEN watches' = watches \ {watchIdRef} /\ watchIdRef' = NoWatch
             ELSE UNCHANGED << watches, watchIdRef >>
          /\ isTracking' = FALSE
          /\ UNCHANGED dashError
     ELSE IF dashGeoSupported
          THEN \E id \in WatchIds \ watches :
                 /\ watches' = watches \cup {id}
                 /\ watchIdRef' = id
                 /\ isTracking' = TRUE
                 /\ UNCHANGED dashError
          ELSE /\ dashError' = ErrUnsupported
               /\ UNCHANGED << watches, watchIdRef, isTracking >>
  /\ UNCHANGED << dashMounted, dashGeoSupported, dashScript, dashApiLoaded,
                  deviceMode, oneShots, selectedDevice, connectedDevices,
                  dashHistory, currentLocation, socket, arrivals, accepted,
                  sentModes >>
  /\ UNCHANGED << simVars, fnVars >>

\* The success callback of watchPosition: it emits 'sendLocation' whenever
\* socketRef.current is set.  State updates of an unmounted component are
\* dropped.
WatchSuccess(id) ==
  /\ id \in watches
  /\ IF dashMounted
     THEN /\ currentLocation' = [deviceId |-> Me, timestamp |-> 0]
          /\ sentModes' = sentModes \cup {deviceMode}
          /\ dashError' = NoError
     ELSE UNCHANGED << currentLocation, sentModes, dashError >>
  /\ UNCHANGED << dashMounted, dashGeoSupported, dashScript, dashApiLoaded,
                  deviceMode, isTracking, watchIdRef, watches, oneShots,
                  selectedDevice, connectedDevices, dashHistory, socket,
                  arrivals, accepted >>
  /\ UNCHANGED << simVars, fnVars >>

OnWatchSuccess == \E id \in watches : WatchSuccess(id)

\* The error callback of watchPosition (permission denied, position
\* unavailable, timeout); the watch stays active.
WatchError(id) ==
  /\ id \in watches
  /\ dashError' = IF dashMounted THEN ErrGeo ELSE dashError
  /\ UNCHANGED << dashMounted, dashGeoSupported, dashScript, dashApiLoaded,
                  deviceMode, isTracking, watchIdRef, watches, oneShots,
                  selectedDevice, connectedDevices, dashHistory,
                  currentLocation, socket, arrivals, accepted, sentModes >>
  /\ UNCHANGED << simVars, fnVars >>

OnWatchError == \E id \in watches : WatchError(id)

\* The "Get Current Location" button of the tracker view.
GetCurrentLocation ==
  /\ dashMounted /\ deviceMode = "tracker"
  /\ IF dashGeoSupported
     THEN /\ Len(oneShots) < MaxGeoPending
          /\ oneShots' = Append(oneShots, deviceMode)
          /\ UNCHANGED dashError
     ELSE /\ dashError' = ErrUnsupported
          /\ UNCHANGED oneShots
  /\ UNCHANGED << dashMounted, dashGeoSupported, dashScript, dashApiLoaded,
                  deviceMode, isTracking, watchIdRef, watches, selectedDevice,
                  connectedDevices, dashHistory, currentLocation, socket,
                  arrivals, accepted, sentModes >>
  /\ UNCHANGED << simVars, fnVars >>

\* The success callback of getCurrentPosition: it emits 'sendLocation' if
\* the deviceMode of the render of the click was 'tracker'.
OneShotSuccess ==
  /\ oneShots # << >>
  /\ oneShots' = Tail(oneShots)
  /\ IF dashMounted
     THEN /\ currentLocation' = [deviceId |-> Me, timestamp |-> 0]
          /\ sentModes' = IF Head(oneShots) = "tracker"
                          THEN sentModes \cup {deviceMode} ELSE sentModes
          /\ dashError' = NoError
     ELSE UNCHANGED << currentLocation, sentModes, dashError >>
  /\ UNCHANGED << dashMounted, dashGeoSupported, dashScript, dashApiLoaded,
                  deviceMode, isTracking, watchIdRef, watches, selectedDevice,
                  connectedDevices, dashHistory, socket, arrivals, accepted >>
  /\ UNCHANGED << simVars, fnVars >>

\* The error callback of getCurrentPosition.
OneShotError ==
  /\ oneShots # << >>
  /\ oneShots' = Tail(oneShots)
  /\ dashError' = IF dashMounted THEN ErrGeo ELSE dashError
  /\ UNCHANGED << dashMounted, dashGeoSupported, dashScript, dashApiLoaded,
                  deviceMode, isTracking, watchIdRef, watches, selectedDevice,
                  connectedDevices, dashHistory, currentLocation, socket,
                  arrivals, accepted, sentModes >>
  /\ UNCHANGED << simVars, fnVars >>

\* The "Switch to ... Mode" button of either view.
SwitchMode ==
  /\ dashMounted /\ DashUiShown
  /\ deviceMode' = IF deviceMode = "tracker" THEN "display" ELSE "tracker"
  /\ socket' = SocketEffect(deviceMode', selectedDevice)
  /\ UNCHANGED << dashMounted, dashGeoSupported, dashScript, dashApiLoaded,
                  dashError, isTracking, watchIdRef, watches, oneShots,
                  selectedDevice, connectedDevices, dashHistory,
                  currentLocation, arrivals, accepted, sentModes >>
  /\ UNCHANGED << simVars, fnVars >>

\* The device selector of the display view.
HandleDeviceSelect(deviceId) ==
  /\ dashMounted /\ deviceMode = "display" /\ dashApiLoaded
  /\ \E i \in DOMAIN connectedDevices : connectedDevices[i] = deviceId
  /\ selectedDevice' = deviceId
  /\ dashHistory' = << >>
  /\ accepted' = << >>
  /\ socket' = SocketEffect(deviceMode, deviceId)
  /\ UNCHANGED << dashMounted, dashGeoSupported, dashScript, dashApiLoaded,
                  dashError, deviceMode, isTracking, watchIdRef, watches,
                  oneShots, connectedDevices, currentLocation, arrivals,
                  sentModes >>
  /\ UNCHANGED << simVars, fnVars >>

OnDeviceSelect == \E deviceId \in OtherDevices : HandleDeviceSelect(deviceId)

\* The watches left by the cleanup of the script effect.  The effect
\* returns before it registers the cleanup when it finds the script element
\* or window.google; the cleanup tests watchIdRef.current for truthiness.
UnmountWatches(script, ref, active) ==
  IF script \in {"loading", "loaded", "failed"} /\ ref # NoWatch /\ ref # 0
  THEN active \ {ref}
  ELSE active

\* The component is removed: the socket is disconnected and the cleanup of
\* the script effect runs, if it was registered.
DashUnmount ==
  /\ dashMounted
  /\ dashMounted' = FALSE
  /\ dashScript' = IF dashScript \in {"loading", "loaded", "failed"}
                   THEN "removed" ELSE dashScript
  /\ watches' = UnmountWatches(dashScript, watchIdRef, watches)
  /\ UNCHANGED << dashGeoSupported, dashApiLoaded, dashError, deviceMode,
                  isTracking, watchIdRef, oneShots, selectedDevice,
                  connectedDevices, dashHistory, currentLocation, socket,
                  arrivals, accepted, sentModes >>
  /\ UNCHANGED << simVars, fnVars >>

\* ------------------------------------------------------- rendered output
LoadingText == "Loading Google Maps..."
MapUi == "map container"
TrackerUi == "tracker controls"

\* {error && <div>{error}</div>}
ErrorBox(err) == IF err = NoError THEN {} ELSE {err}

\* What the simulator page returns: the loading text while !isApiLoaded,
\* else the map container, the controls and the error box.
SimView ==
  IF ~mounted THEN {}
  ELSE IF ~isApiLoaded THEN {LoadingText}
  ELSE {MapUi} \cup ErrorBox(error)

\* What the tracker/display page returns: the loading text while
\* !isApiLoaded in display mode, else the view of the mode with its error
\* box.
DashView ==
  IF ~dashMounted THEN {}
  ELSE IF ~dashApiLoaded /\ deviceMode = "display" THEN {LoadingText}
  ELSE IF deviceMode = "tracker" THEN {TrackerUi} \cup ErrorBox(dashError)
  ELSE {MapUi} \cup ErrorBox(dashError)

\* The display side and the tracker side of the page share the mount, the
\* script, the error text and deviceMode, and nothing else: the handlers of
\* one side leave the state of the other side alone.  Each side is explored
\* with the controls of the other side unused.
DisplayNext ==
  \/ DashScriptOnLoad
  \/ DashScriptOnError
  \/ OnLocationUpdate
  \/ OnDevicesList
  \/ OnSocketError
  \/ SwitchMode
  \/ OnDeviceSelect
  \/ DashUnmount

TrackerNext ==
  \/ DashScriptOnLoad
  \/ DashScriptOnError
  \/ SwitchMode
  \/ ToggleTracking
  \/ OnWatchSuccess
  \/ OnWatchError
  \/ GetCurrentLocation
  \/ OneShotSuccess
  \/ OneShotError
  \/ DashUnmount

DisplaySpec == DashInit /\ [][DisplayNext]_vars

TrackerSpec == DashInit /\ [][TrackerNext]_vars

\* Either page is on screen: the simulator, or the tracker/display page with
\* its positioning controls.
AppInit == Init \/ DashInit
AppNext == Next \/ TrackerNext
AppSpec == AppInit /\ [][AppNext]_vars

\* ================================================================== claims
Last(h) == h[Len(h)]
Running == isConnected /\ mounted

\* C1: after k animation frames since the last start, locationHistory has
\* exactly k samples.  (The code does not do this: the sample effect also
\* runs in the render of the start.)
C1_HistoryLengthIsTicks ==
  (Quiescent /\ Running) => Len(locationHistory) = ticks

\* C2: stop followed by start leaves the history empty and progress 0, once
\* the effects of the start have run and before the first frame.  (The code
\* does not do this: the history holds the sample of the old progress.)
C2_RestartClears ==
  (Quiescent /\ Running /\ everStopped /\ ticks = 0)
    => (Len(locationHistory) = 0 /\ progress = 0)

\* C3: progress is 0 in the first state in which the session is running,
\* and never decreases from one state to the next while it is running.
\* (The code does not do this: setIsConnected(true) is committed with the
\* progress of the previous session, and the effect resets it afterwards.)
C3_ZeroAtStartThenMonotone ==
  [][ /\ (~isConnected /\ isConnected') => progress' = 0
      /\ (isConnected /\ isConnected') => progress' >= progress ]_vars

\* C4: once the session is stopped or the component is unmounted, no frame
\* is left to run and no step changes progress, history or target until
\* the next start; cancelling again (stop, then unmount) changes nothing.
C4_NoTickAfterStop ==
  /\ [](((Quiescent /\ ~isConnected) \/ ~mounted)
          => (pendingFrames = {} /\ animationRef = Null))
  /\ [][ ((~isConnected /\ ~isConnected') \/ ~mounted)
           => UNCHANGED << progress, locationHistory, targetLocation >> ]_vars

C4_Witness ==
  /\ ~mounted /\ ~isConnected /\ everStopped
  /\ beforeTick.progress > 0 /\ progress > 0
  /\ pendingFrames = {}

C6_ProgressClamped ==
  /\ [](progress \in 0..StepsToFull)
  /\ [][ (progress = StepsToFull /\ ticks' = ticks + 1)
           => progress' = StepsToFull ]_vars

C6_Witness ==
  /\ Running /\ progress = StepsToFull
  /\ beforeTick.progress = StepsToFull

\* C7: a stop leaves progress and history as they were, and they keep
\* these values while the session is idle.
C7_StopRetains ==
  [][ ~isConnected' => (progress' = progress
                         /\ locationHistory' = locationHistory) ]_vars

C7_Witness ==
  /\ mounted /\ Quiescent /\ ~isConnected /\ everStopped
  /\ progress > 0 /\ Len(locationHistory) > 1
  /\ progress < StepsToFull

\* C8: at most one animation frame callback is pending, and none while the
\* session is idle.
C8_OneLoop ==
  /\ Cardinality(pendingFrames) <= 1
  /\ (Quiescent /\ ~isConnected) => Cardinality(pendingFrames) = 0

C8_Witness ==
  /\ Running /\ Quiescent /\ everStopped /\ ticks > 0
  /\ Cardinality(pendingFrames) = 1
  /\ animationRef \in FrameIds(pendingFrames)

\* C9: for a route of N >= 2 waypoints and a progress in [0, 1],
\* findCurrentSegment returns an index in 0..N-2, so both end points of the
\* segment are waypoints of the route.
C9_SegmentInRange ==
  fnPc # "segment"
    => /\ resSeg \in 0..(Len(argRoute) - 2)
       /\ resSeg + 1 \in DOMAIN argRoute     \* routePoints[index]
       /\ resSeg + 2 \in DOMAIN argRoute     \* routePoints[index + 1]

C9_Witness ==
  /\ fnPc = "done" /\ argPn = argPd
  /\ Len(argRoute) > 2 /\ resSeg = Len(argRoute) - 2

\* C10: the position computed from progress 0 is the first waypoint and
\* the position computed from progress 1 is the last waypoint.
AtWaypoint(pos, w) == pos.lat = w.lat * pos.den /\ pos.lng = w.lng * pos.den

C10_EndPointsExact ==
  fnPc = "done"
    => /\ argPn = 0 => AtWaypoint(resPos, argRoute[1])
       /\ argPn = argPd => AtWaypoint(resPos, argRoute[Len(argRoute)])

C10_Witness ==
  /\ fnPc = "done" /\ argPn = argPd /\ argPd > 1
  /\ Len(argRoute) > 2
  /\ argRoute[1] # argRoute[Len(argRoute)]
  /\ AtWaypoint(resPos, argRoute[Len(argRoute)])
  /\ ~AtWaypoint(resPos, argRoute[1])

\* The progress a sample of the history was computed from: the position is
\* one-to-one on the route of the code.
SampleOf(loc, p) ==
  LET pos == PositionAt(p, StepsToFull, routePoints)
  IN loc.lat = pos.lat /\ loc.lng = pos.lng /\ loc.den = pos.den
ProgressOf(loc) == CHOOSE p \in 0..StepsToFull : SampleOf(loc, p)
SegmentOf(loc) == FindCurrentSegment(ProgressOf(loc), StepsToFull, routePoints)

\* C15: in a session that is started and not stopped, progress after k
\* frames is min(1, k * 0.001) (here min(StepsToFull, k) steps); with frames
\* and effects run whenever they are due it reaches 1 and stays there.
C15_ProgressIsTicks ==
  /\ []((Quiescent /\ Running) => progress = Min(ticks, StepsToFull))
  /\ ((Quiescent /\ Running) ~> (progress = StepsToFull \/ ~Running))
  /\ [][ (Quiescent /\ Running /\ progress = StepsToFull /\ isConnected')
           => progress' = StepsToFull ]_vars

C15_Witness ==
  /\ Quiescent /\ Running
  /\ ticks = StepsToFull /\ progress = StepsToFull

\* C16: the heading of every sample is the bearing from the start to the
\* end waypoint of the segment of the sample's progress, so two samples of
\* the same segment have the same heading.
C16_HeadingOfSegment ==
  /\ \A i \in DOMAIN locationHistory :
       /\ \E p \in 0..StepsToFull : SampleOf(locationHistory[i], p)
       /\ locationHistory[i].heading
            = ComputeHeading(routePoints[SegmentOf(locationHistory[i]) + 1],
                             routePoints[SegmentOf(locationHistory[i]) + 2])
  /\ \A i, j \in DOMAIN locationHistory :
       SegmentOf(locationHistory[i]) = SegmentOf(locationHistory[j])
         => locationHistory[i].heading = locationHistory[j].heading

C16_Witness ==
  /\ \E i, j \in DOMAIN locationHistory :
       /\ ProgressOf(locationHistory[i]) # ProgressOf(locationHistory[j])
       /\ SegmentOf(locationHistory[i]) = SegmentOf(locationHistory[j])
       /\ locationHistory[i].heading = locationHistory[j].heading
  /\ \E i, j \in DOMAIN locationHistory :
       /\ SegmentOf(locationHistory[i]) # SegmentOf(locationHistory[j])
       /\ locationHistory[i].heading # locationHistory[j].heading

\* C19: in a running session the first sample of the history was computed
\* at progress 0 and the samples follow the route forward.  (The code does
\* not do this: after a restart the first sample is the one of the old
\* progress.)
C19_HistoryFollowsRoute ==
  (Quiescent /\ Running /\ locationHistory # << >>)
    => /\ ProgressOf(locationHistory[1]) = 0
       /\ \A i, j \in DOMAIN locationHistory :
            i < j => ProgressOf(locationHistory[i])
                       <= ProgressOf(locationHistory[j])

\* C11: after the load-failure event of the map script the page renders the
\* text 'Failed to load Google Maps API' and does not render the map UI, on
\* the simulator page and on the tracker/display page.  (No later handler
\* can replace the text: every control that sets the error is part of the
\* UI that is not rendered.)
C11_LoadFailureShown ==
  /\ (mounted /\ scriptState = "failed")
       => (ErrMaps \in SimView /\ MapUi \notin SimView)
  /\ (dashMounted /\ dashScript = "failed")
       => (ErrMaps \in DashView /\ MapUi \notin DashView)

\* The steps in which positioning fails: the browser has no geolocation, or
\* the error callback runs (permission denied, position unavailable,
\* timeout).
SimPositioningFailure ==
  \/ GeoError
  \/ (UpdateMyLocation /\ ~geoSupported)

TrackerPositioningFailure ==
  \/ OnWatchError
  \/ OneShotError
  \/ (ToggleTracking /\ ~isTracking /\ ~dashGeoSupported)
  \/ (GetCurrentLocation /\ ~dashGeoSupported)

\* C12: a positioning failure sets the error text and leaves the session
\* alone: in the simulator isConnected, progress, the history and the
\* animation loop are unchanged, in the tracker isTracking, the watch
\* reference and the active watches are unchanged.
C12_FailureKeepsSession ==
  [][ /\ SimPositioningFailure
          => UNCHANGED << isConnected, progress, locationHistory,
                          animationRef, pendingFrames, changed >>
      /\ TrackerPositioningFailure
          => UNCHANGED << isTracking, watchIdRef, watches, deviceMode >>
    ]_vars

\* A watch has failed while the tracker is sharing, and still runs.
C12_Witness ==
  /\ dashMounted /\ isTracking /\ watchIdRef \in watches
  /\ dashError = ErrGeo

\* C13 as stated: on the display page the history holds at most KeepLast
\* samples, the most recently accepted ones in arrival order.
C13_HistoryAtMostKeepLast ==
  /\ Len(dashHistory) <= KeepLast
  /\ dashHistory = Slice(accepted, KeepLast)

\* C13, amended: the history holds at most KeepLast + 1 samples: the new
\* sample after the last KeepLast of the history before it.  They are the
\* most recently accepted samples since the history was last cleared, in
\* arrival order.
C13_HistoryAtMostKeepLastPlusOne ==
  /\ Len(dashHistory) <= KeepLast + 1
  /\ dashHistory = Slice(accepted, KeepLast + 1)
  /\ \A i, j \in DOMAIN dashHistory :
       i < j => dashHistory[i].timestamp < dashHistory[j].timestamp

\* More samples were accepted than the history keeps: the oldest is gone.
C13_Witness ==
  /\ Len(accepted) > KeepLast + 1
  /\ Len(dashHistory) = KeepLast + 1
  /\ dashHistory[1] # accepted[1]

\* C14: once the tracker/display component is unmounted no position watch
\* started by toggleTracking is still active, whichever way the map script
\* was found at mount and whatever identifier the watch received.
C14_UnmountCancelsWatch == ~dashMounted => watches = {}

\* C17: only a device in the tracker role publishes samples: no
\* 'sendLocation' message is emitted while deviceMode is 'display'.
C17_NoSendInDisplayMode == "display" \notin sentModes

\* C18: on the display page, whenever a device is selected every sample of
\* the history carries the identifier of that device.
C18_HistoryOfSelectedDevice ==
  (dashMounted /\ selectedDevice # NoDevice)
    => \A i \in DOMAIN dashHistory : dashHistory[i].deviceId = selectedDevice

====
